---- MODULE Spec2Model ----
(***************************************************************************)
(* A model of the route planner's core (src/translink-parser.ts, the       *)
(* exported definitions of lines 311-805): route-id matching, travel-time  *)
(* arithmetic, the service calendar, the departure window filter and the   *)
(* live-data correlator.                                                   *)
(*                                                                         *)
(* Strings the code takes apart (route ids, clock times) are sequences of  *)
(* one-character strings, so that split() and Number() are computed.       *)
(* Every operation is a pure function of its arguments: a specification    *)
(* draws the arguments in its initial state (pc = "ready") and its action  *)
(* applies the function once (pc = "done", ret = the value returned).      *)
(***************************************************************************)
EXTENDS Integers, Sequences, FiniteSets, TLC

VARIABLES pc, call, ret

vars == <<pc, call, ret>>

\* The value of `ret` before the call has returned.
Pending == [kind |-> "pending"]

(***************************************************************************)
(* JavaScript built-ins the code relies on.                                *)
(***************************************************************************)

\* String.prototype.split(sep), one-character separator: the pieces between
\* the separators, one more than there are separators ("" splits into [""]).
Split(s, sep) ==
    LET at == SelectSeq([i \in 1..Len(s) |-> i], LAMBDA i : s[i] = sep)
        n == Len(at)
    IN  [k \in 1..(n + 1) |->
            SubSeq(s, IF k = 1 THEN 1 ELSE at[k - 1] + 1,
                      IF k = n + 1 THEN Len(s) ELSE at[k] - 1)]

DigitChars == <<"0", "1", "2", "3", "4", "5", "6", "7", "8", "9">>

DigitVal(c) == (CHOOSE i \in 1..10 : DigitChars[i] = c) - 1

IsDigit(c) == \E i \in 1..10 : DigitChars[i] = c

\* NaN, the value of Number() on a non-number and of arithmetic on undefined
\* (and the time value of an Invalid Date): a value apart from every number
\* the model computes. The operations test for it before they compute.
NaN == 0 - 2 ^ 30

IsNaN(x) == x = NaN

RECURSIVE DigitsValue(_, _)
DigitsValue(s, acc) ==
    IF s = <<>> THEN acc ELSE DigitsValue(Tail(s), 10 * acc + DigitVal(Head(s)))

\* Number(s) for the strings that occur here: "" is 0, a run of decimal
\* digits is its value, anything else is NaN.
Number(s) ==
    IF \A i \in 1..Len(s) : IsDigit(s[i]) THEN DigitsValue(s, 0) ELSE NaN

\* The element a destructuring pattern [x0, x1] binds at 0-based position i
\* of arr.map(Number): undefined (here NaN, as arithmetic sees it) when the
\* array is shorter.
NumberAt(arr, i) == IF i + 1 <= Len(arr) THEN Number(arr[i + 1]) ELSE NaN

(***************************************************************************)
(* matchRouteIds                                                           *)
(***************************************************************************)

MatchRouteIds_exact(staticRouteId, realtimeRouteId) ==
    staticRouteId = realtimeRouteId

MatchRouteIds(staticRouteId, realtimeRouteId) ==
    LET staticMainRoute == Split(staticRouteId, "-")[1]
        realtimeMainRoute == Split(realtimeRouteId, "-")[1]
    IN  staticMainRoute = realtimeMainRoute

\* Route identifiers: every string of at most MaxIdLen characters over
\* RouteChars.
MaxIdLen == 3

RouteChars == {"6", "7", "-"}

RouteIdStrings == UNION {[1..n -> RouteChars] : n \in 0..MaxIdLen}

InitRoute ==
    /\ pc = "ready"
    /\ call \in [op : {"matchRouteIds"}, a : RouteIdStrings, b : RouteIdStrings]
    /\ ret = Pending

DoMatchRouteIds ==
    /\ pc = "ready"
    /\ call.op = "matchRouteIds"
    /\ ret' = MatchRouteIds(call.a, call.b)
    /\ pc' = "done"
    /\ UNCHANGED call

SpecRoute == InitRoute /\ [][DoMatchRouteIds]_vars

\* The part of a string before its first hyphen; the whole string when it
\* has none.
BeforeFirstHyphen(s) ==
    LET hy == {i \in 1..Len(s) : s[i] = "-"}
    IN  IF hy = {} THEN s
        ELSE SubSeq(s, 1, (CHOOSE i \in hy : \A j \in hy : i <= j) - 1)

Returned(op) == pc = "done" /\ call.op = op

\* C1: matchRouteIds(a, b) is true exactly when the parts of a and of b
\* before their first hyphens are equal; what follows the first hyphen does
\* not matter.
C1_MatchIffPrefixEqual ==
    Returned("matchRouteIds") =>
        (ret <=> (BeforeFirstHyphen(call.a) = BeforeFirstHyphen(call.b)))

\* Two different identifiers, each with text after a hyphen, that match.
C1_Witness ==
    /\ Returned("matchRouteIds")
    /\ call.a = <<"6", "-", "6">>
    /\ call.b = <<"6", "-", "7">>
    /\ ret = TRUE

(***************************************************************************)
(* calculateTravelTime                                                     *)
(***************************************************************************)

DiffMinutes_noFullDay(startTime, endTime) ==
    LET s == Split(startTime, ":")
        e == Split(endTime, ":")
    IN  ((NumberAt(e, 0) * 60 + NumberAt(e, 1))
            - (NumberAt(s, 0) * 60 + NumberAt(s, 1)) + 1440) % 1440

\* Lines 526-531: the two clock strings are split at ":" and the first two
\* pieces read as numbers; the difference is taken modulo a day, 0 becoming
\* a whole day. (The operands of % are never negative here, where the
\* remainder of JavaScript and the modulus of TLA+ agree.)
DiffMinutes(startTime, endTime) ==
    LET s == Split(startTime, ":")
        e == Split(endTime, ":")
        startHours == NumberAt(s, 0)
        startMinutes == NumberAt(s, 1)
        endHours == NumberAt(e, 0)
        endMinutes == NumberAt(e, 1)
        diffMinutes == ((endHours * 60 + endMinutes)
                          - (startHours * 60 + startMinutes) + 1440) % 1440
    IN  IF \E x \in {startHours, startMinutes, endHours, endMinutes} : IsNaN(x)
        THEN NaN
        ELSE IF diffMinutes = 0 THEN 1440 ELSE diffMinutes

\* The template `${n} ${unit}${n !== 1 ? 's' : ''}` as the words it prints.
UnitWords(n, unit, plural) == <<n, IF n # 1 THEN plural ELSE unit>>

RenderTravelTime_pluralAboveOne(diffMinutes) ==
    LET hours == diffMinutes \div 60
        minutes == diffMinutes % 60
        W(n, unit, plural) == <<n, IF n > 1 THEN plural ELSE unit>>
    IN  IF hours = 0 THEN W(minutes, "minute", "minutes")
        ELSE W(hours, "hour", "hours") \o W(minutes, "minute", "minutes")

\* Lines 533-540: the rendered text, as the sequence of its words (numbers
\* as numbers): <<1, "hour", 30, "minutes">> is "1 hour 30 minutes". Of a
\* NaN every comparison is false and the text is "NaN hours NaN minutes".
RenderTravelTime(diffMinutes) ==
    LET hours == diffMinutes \div 60
        minutes == diffMinutes % 60
    IN  IF IsNaN(diffMinutes) THEN <<NaN, "hours", NaN, "minutes">>
        ELSE IF hours = 0 THEN UnitWords(minutes, "minute", "minutes")
        ELSE UnitWords(hours, "hour", "hours")
                \o UnitWords(minutes, "minute", "minutes")

CalculateTravelTime(startTime, endTime) ==
    RenderTravelTime(DiffMinutes(startTime, endTime))

\* A number below 100 as two decimal digits.
TwoDigits(n) == <<DigitChars[(n \div 10) + 1], DigitChars[(n % 10) + 1]>>

\* Clock strings "HH:MM" and "HH:MM:SS".
ClockHM(h, m) == TwoDigits(h) \o <<":">> \o TwoDigits(m)

ClockHMS(h, m, sec) == ClockHM(h, m) \o <<":">> \o TwoDigits(sec)

\* The clock times calculateTravelTime is called with: hours and minutes at
\* and around the values where the rendering changes (0, 1, 2), the ends of
\* the ranges, and the times of the test cases.
TravelHours == {0, 1, 2, 10, 11, 22, 23}

TravelMinutes == {0, 1, 2, 10, 30, 50, 59}

TravelSeconds == {0, 59}

TravelClocks ==
    {ClockHM(h, m) : h \in TravelHours, m \in TravelMinutes}
        \cup {ClockHMS(h, m, x) : h \in TravelHours, m \in TravelMinutes,
                                  x \in TravelSeconds}

InitTravel ==
    /\ pc = "ready"
    /\ call \in [op : {"calculateTravelTime"},
                 startTime : TravelClocks, endTime : TravelClocks]
    /\ ret = Pending

DoCalculateTravelTime ==
    /\ pc = "ready"
    /\ call.op = "calculateTravelTime"
    /\ ret' = CalculateTravelTime(call.startTime, call.endTime)
    /\ pc' = "done"
    /\ UNCHANGED call

SpecTravel == InitTravel /\ [][DoCalculateTravelTime]_vars

\* The minute of the day a clock string names, read off its characters
\* (positions 1-2 the hour, 4-5 the minute); seconds are not looked at.
MinuteOfDay(clock) ==
    (DigitVal(clock[1]) * 10 + DigitVal(clock[2])) * 60
        + DigitVal(clock[4]) * 10 + DigitVal(clock[5])

\* The number of minutes a rendered duration stands for.
RenderedMinutes(words) ==
    IF Len(words) = 2 THEN words[1] ELSE words[1] * 60 + words[3]

ExpectedMinutes(startTime, endTime) ==
    LET d == (MinuteOfDay(endTime) - MinuteOfDay(startTime) + 1440) % 1440
    IN  IF d = 0 THEN 1440 ELSE d

\* C2: the duration calculateTravelTime renders is (end - start + 1440) mod
\* 1440 minutes with 0 replaced by 1440, so it lies in 1..1440; seconds are
\* ignored and an end before the start is read as crossing midnight.
C2_MinutesModuloDay ==
    Returned("calculateTravelTime") =>
        /\ RenderedMinutes(ret) = ExpectedMinutes(call.startTime, call.endTime)
        /\ RenderedMinutes(ret) \in 1..1440

\* 23:50 to 00:10 is rendered as 20 minutes.
C2_Witness ==
    /\ Returned("calculateTravelTime")
    /\ call.startTime = ClockHM(23, 50)
    /\ call.endTime = ClockHM(0, 10)
    /\ ret = <<20, "minutes">>

\* C3: the rendering is "H hour(s) M minute(s)": no hour term when the hour
\* count is 0, each unit word singular exactly when its value is 1, and
\* equal start and end times rendered as a full day of 24 hours.
C3_RenderingShape ==
    Returned("calculateTravelTime") =>
        LET total == ExpectedMinutes(call.startTime, call.endTime)
            h == total \div 60
            m == total % 60
            hourWord == IF h = 1 THEN "hour" ELSE "hours"
            minuteWord == IF m = 1 THEN "minute" ELSE "minutes"
        IN  /\ h = 0 => ret = <<m, minuteWord>>
            /\ h # 0 => ret = <<h, hourWord, m, minuteWord>>
            /\ MinuteOfDay(call.startTime) = MinuteOfDay(call.endTime)
                   => ret = <<24, "hours", 0, "minutes">>

\* 10:00 to 11:01 is "1 hour 1 minute": both unit words singular.
C3_Witness ==
    /\ Returned("calculateTravelTime")
    /\ call.startTime = ClockHM(10, 0)
    /\ call.endTime = ClockHMS(11, 1, 59)
    /\ ret = <<1, "hour", 1, "minute">>

(***************************************************************************)
(* Dates. An instant (a JavaScript Date) is a number of seconds since      *)
(* 2024-08-25T00:00:00Z, a Sunday; every date of the model lies in 2024.   *)
(* The process runs in the zone of its users and of its tests,             *)
(* Australia/Brisbane, ten hours ahead of UTC all year.                    *)
(***************************************************************************)

SecondsPerDay == 24 * 3600

\* The "+10:00" of `${date}T${time}+10:00`.
BrisbaneOffset == 10 * 3600

\* The offset of the zone getDay() and setHours() work in.
LocalOffset == BrisbaneOffset

\* Days of 2024 before each month.
DaysBeforeMonth == <<0, 31, 60, 91, 121, 152, 182, 213, 244, 274, 305, 335, 366>>

DayOfYear(month, day) == DaysBeforeMonth[month] + day

\* The day number of a date of 2024, counted from 2024-08-25.
DayIndex(month, day) == DayOfYear(month, day) - DayOfYear(8, 25)

MonthOfDayIndex(n) ==
    CHOOSE m \in 1..12 :
        /\ DaysBeforeMonth[m] < n + DayOfYear(8, 25)
        /\ n + DayOfYear(8, 25) <= DaysBeforeMonth[m + 1]

DayOfMonthOfDayIndex(n) ==
    n + DayOfYear(8, 25) - DaysBeforeMonth[MonthOfDayIndex(n)]

Year2024 == <<"2", "0", "2", "4">>

\* new Date("YYYY-MM-DD"): a date-only ISO string is midnight UTC.
NewDateFromISODate(str) ==
    LET p == Split(str, "-")
    IN  IF Len(p) = 3 /\ p[1] = Year2024 /\ Number(p[2]) \in 1..12
                /\ Number(p[3]) \in 1..31
        THEN DayIndex(Number(p[2]), Number(p[3])) * SecondsPerDay
        ELSE NaN

\* new Date(`${date}T${time}+10:00`), date "YYYY-MM-DD" and time "HH:mm".
NewDateBrisbane(date, time) ==
    LET t == Split(time, ":")
    IN  NewDateFromISODate(date) + Number(t[1]) * 3600 + Number(t[2]) * 60
            - BrisbaneOffset

\* date.toISOString().split('T')[0]: the UTC calendar date, "YYYY-MM-DD".
ISODateUTC(date) ==
    LET n == date \div SecondsPerDay
    IN  Year2024 \o <<"-">> \o TwoDigits(MonthOfDayIndex(n)) \o <<"-">>
            \o TwoDigits(DayOfMonthOfDayIndex(n))

\* str.replace(/-/g, '')
RemoveHyphens(str) == SelectSeq(str, LAMBDA c : c # "-")

\* key.replace(/(\d{4})(\d{2})(\d{2})/, '$1-$2-$3') on an 8-digit key.
InsertHyphens(key) ==
    SubSeq(key, 1, 4) \o <<"-">> \o SubSeq(key, 5, 6) \o <<"-">> \o SubSeq(key, 7, 8)

\* date.getDay(): the day of the week in the local zone, 0 for Sunday.
GetDay(date) == ((date + LocalOffset) \div SecondsPerDay) % 7

DayNames ==
    <<"sunday", "monday", "tuesday", "wednesday", "thursday", "friday", "saturday">>

\* d = new Date(date); d.setHours(hours, minutes, 0, 0): the local calendar
\* day of `date` at the given local time (hours past 23 run into the next
\* day); an Invalid Date when an argument is NaN.
SetHours(date, hours, minutes) ==
    IF IsNaN(hours) \/ IsNaN(minutes) THEN NaN
    ELSE ((date + LocalOffset) \div SecondsPerDay) * SecondsPerDay
            + hours * 3600 + minutes * 60 - LocalOffset

\* The compact key "YYYYMMDD" and the ISO form of a day of 2024.
DateKey(month, day) == Year2024 \o TwoDigits(month) \o TwoDigits(day)

ISODate(month, day) == InsertHyphens(DateKey(month, day))

(***************************************************************************)
(* isServiceRunning (the closure of filterTripsForUpcomingDepartures)      *)
(***************************************************************************)

\* Line 640: the name of the weekday of the date in the local zone.
DayOfWeek(date) == DayNames[GetDay(date) + 1]

\* Line 641: the compact key of the UTC calendar date of the date.
DateString(date) == RemoveHyphens(ISODateUTC(date))

\* Lines 639-663. Dataframe.filter(...).data[0] is the first row that
\* satisfies the criteria, undefined when there is none.
IsServiceRunning(calendarDF, calendarDatesDF, serviceId, date) ==
    LET dayOfWeek == DayOfWeek(date)
        dateString == DateString(date)
        exceptionRows ==
            SelectSeq(calendarDatesDF,
                      LAMBDA row : row.service_id = serviceId /\ row.date = dateString)
        calendarRows == SelectSeq(calendarDF, LAMBDA row : row.service_id = serviceId)
    IN  IF exceptionRows # <<>>
        THEN exceptionRows[1].exception_type = "1"
        ELSE IF calendarRows = <<>>
        THEN FALSE
        ELSE LET serviceCalendar == calendarRows[1]
                 startDate == NewDateFromISODate(InsertHyphens(serviceCalendar.start_date))
                 endDate == NewDateFromISODate(InsertHyphens(serviceCalendar.end_date))
             IN  /\ date >= startDate
                 /\ date <= endDate
                 /\ serviceCalendar[dayOfWeek] = "1"

\* A calendar.txt row: the service runs on the days of `days`, from
\* start_date to end_date.
CalendarRow(serviceId, days, startDate, endDate) ==
    [service_id |-> serviceId,
     sunday |-> IF "sunday" \in days THEN "1" ELSE "0",
     monday |-> IF "monday" \in days THEN "1" ELSE "0",
     tuesday |-> IF "tuesday" \in days THEN "1" ELSE "0",
     wednesday |-> IF "wednesday" \in days THEN "1" ELSE "0",
     thursday |-> IF "thursday" \in days THEN "1" ELSE "0",
     friday |-> IF "friday" \in days THEN "1" ELSE "0",
     saturday |-> IF "saturday" \in days THEN "1" ELSE "0",
     start_date |-> startDate,
     end_date |-> endDate]

AllDays == {DayNames[i] : i \in 1..7}

\* Sequences of at most n elements of S.
SeqsUpTo(S, n) == UNION {[1..k -> S] : k \in 0..n}

\* calendar_dates.txt holds at most one row per service and date.
UniqueExceptionKeys(rows) ==
    \A i, j \in 1..Len(rows) :
        (rows[i].service_id = rows[j].service_id /\ rows[i].date = rows[j].date)
            => i = j

\* The queries isServiceRunning is called with: Wednesday 28, Thursday 29 and Friday
\* 30 August 2024, at local midnight, just before and at 10:00 (midnight
\* UTC), and late in the evening.
CalendarQueryDays == {28, 29, 30}

CalendarQueryTimes == {ClockHM(0, 0), ClockHM(9, 55), ClockHM(10, 0), ClockHM(23, 55)}

CalendarServices == {"service1", "service2"}

CalendarDaySets == {{}, AllDays, {"thursday"}}

CalendarTables ==
    {<<>>} \cup
    {<<CalendarRow(sv, days, DateKey(8, a), DateKey(8, b))>> :
        sv \in CalendarServices, days \in CalendarDaySets,
        a \in CalendarQueryDays, b \in CalendarQueryDays}

ExceptionRows ==
    [service_id : CalendarServices,
     date : {DateKey(8, 28), DateKey(8, 29)},
     exception_type : {"1", "2"}]

MaxExceptions == 2

ExceptionTables ==
    {rows \in SeqsUpTo(ExceptionRows, MaxExceptions) : UniqueExceptionKeys(rows)}

InitCalendar ==
    /\ pc = "ready"
    /\ \E day \in CalendarQueryDays, time \in CalendarQueryTimes,
          calendarDF \in CalendarTables, calendarDatesDF \in ExceptionTables :
          call = [op |-> "isServiceRunning",
                  queryDay |-> day,
                  queryTime |-> time,
                  calendarDF |-> calendarDF,
                  calendarDatesDF |-> calendarDatesDF,
                  serviceId |-> "service1",
                  date |-> NewDateBrisbane(ISODate(8, day), time)]
    /\ ret = Pending

DoIsServiceRunning ==
    /\ pc = "ready"
    /\ call.op = "isServiceRunning"
    /\ ret' = IsServiceRunning(call.calendarDF, call.calendarDatesDF,
                               call.serviceId, call.date)
    /\ pc' = "done"
    /\ UNCHANGED call

SpecCalendar == InitCalendar /\ [][DoIsServiceRunning]_vars

\* The exception rows for the service on the calendar day the query names.
ExceptionsOnQueryDay ==
    SelectSeq(call.calendarDatesDF,
              LAMBDA row : /\ row.service_id = call.serviceId
                           /\ row.date = DateKey(8, call.queryDay))

\* The day of August 2024 a compact date key names.
DayOfKey(key) == DigitVal(key[7]) * 10 + DigitVal(key[8])

\* The weekday of a day of August 2024 (the 25th is a Sunday).
WeekdayOfAugust(day) == DayNames[((day - 25) % 7) + 1]

\* C4: when an exception row exists for the service on the query's date,
\* the service runs exactly when the row's type is 1, whatever the weekly
\* calendar says.
C4_ExceptionDecides ==
    (Returned("isServiceRunning") /\ ExceptionsOnQueryDay # <<>>) =>
        (ret <=> (ExceptionsOnQueryDay[1].exception_type = "1"))

\* C5: a service with no exception row runs exactly when it has a calendar
\* row, the query's calendar date lies in [start_date, end_date] (both days
\* included, at any time of day) and the flag of the date's weekday is set.
\* Stated for a service that has no exception row on any date.
C5_WeeklyPatternByCalendarDate ==
    (/\ Returned("isServiceRunning")
     /\ \A i \in 1..Len(call.calendarDatesDF) :
            call.calendarDatesDF[i].service_id # call.serviceId) =>
        LET rows == SelectSeq(call.calendarDF,
                              LAMBDA row : row.service_id = call.serviceId)
        IN  ret <=> /\ rows # <<>>
                    /\ DayOfKey(rows[1].start_date) <= call.queryDay
                    /\ call.queryDay <= DayOfKey(rows[1].end_date)
                    /\ rows[1][WeekdayOfAugust(call.queryDay)] = "1"

\* C23: the weekday name and the compact date key isServiceRunning works
\* with are those of the calendar date the user gave (the date of now at
\* +10:00), at every time of day: at 09:55 on 2024-08-29 the key is
\* 20240829 and the weekday thursday.
C23_KeyAndWeekdayOfLocalDate ==
    Returned("isServiceRunning") =>
        /\ DateString(call.date) = DateKey(8, call.queryDay)
        /\ DayOfWeek(call.date) = WeekdayOfAugust(call.queryDay)

(***************************************************************************)
(* filterTripsForUpcomingDepartures                                        *)
(***************************************************************************)

\* What a call yields: a value returned, or an exception thrown.
Return(v) == [kind |-> "return", value |-> v]

Throw(e) == [kind |-> "throw", error |-> e]

\* undefined: df.filter(...).data[0] of an empty result, an argument left
\* out.
Undefined == [kind |-> "undefined"]

\* Dataframe.filter(criteria).data[0]
FirstOrUndefined(rows) == IF rows = <<>> THEN Undefined ELSE rows[1]

\* Lines 675-678: the row's departure time (its arrival time when the
\* departure field is empty), hours and minutes only, on the local calendar
\* day of currentDateTime.
DepartureDateTime(row, currentDateTime) ==
    LET departureTime ==
            IF row.departure_time # <<>> THEN row.departure_time
            ELSE row.arrival_time
        parts == Split(departureTime, ":")
    IN  SetHours(currentDateTime, NumberAt(parts, 0), NumberAt(parts, 1))

InWindow_openEnd(departureDateTime, currentDateTime, tenMinutesLater) ==
    /\ ~IsNaN(departureDateTime)
    /\ departureDateTime >= currentDateTime
    /\ departureDateTime < tenMinutesLater

\* Line 682; a comparison with an Invalid Date is false.
InWindow(departureDateTime, currentDateTime, tenMinutesLater) ==
    /\ ~IsNaN(departureDateTime)
    /\ departureDateTime >= currentDateTime
    /\ departureDateTime <= tenMinutesLater

RowOutcome_anyRoute(row, tripsDF, routesDF, route, startStop, currentDateTime, calendarDF, calendarDatesDF) ==
    IF row.stop_id # startStop.stop_id THEN "skip"
    ELSE
        LET trip == FirstOrUndefined(
                        SelectSeq(tripsDF, LAMBDA t : t.trip_id = row.trip_id))
        IN  IF trip = Undefined THEN "skip"
            ELSE IF ~IsServiceRunning(calendarDF, calendarDatesDF,
                                      trip.service_id, currentDateTime)
            THEN "skip"
            ELSE IF InWindow(DepartureDateTime(row, currentDateTime),
                             currentDateTime, currentDateTime + 10 * 60)
            THEN "keep"
            ELSE "skip"

\* Lines 665-685, the criteria of the filter over stop_times for one row:
\* the row is kept, left out, or the callback throws (line 672 reads a
\* property of routeInfo, which is undefined when the trip's route is not
\* in the routes table).
RowOutcome(row, tripsDF, routesDF, route, startStop, currentDateTime, calendarDF, calendarDatesDF) ==
    IF row.stop_id # startStop.stop_id THEN "skip"
    ELSE
        LET trip == FirstOrUndefined(
                        SelectSeq(tripsDF, LAMBDA t : t.trip_id = row.trip_id))
        IN  IF trip = Undefined THEN "skip"
            ELSE IF ~IsServiceRunning(calendarDF, calendarDatesDF,
                                      trip.service_id, currentDateTime)
            THEN "skip"
            ELSE
                LET routeInfo == FirstOrUndefined(
                        SelectSeq(routesDF, LAMBDA r : r.route_id = trip.route_id))
                    tenMinutesLater == currentDateTime + 10 * 60
                IN  IF routeInfo = Undefined THEN "throw"
                    ELSE IF routeInfo.route_short_name # route THEN "skip"
                    ELSE IF InWindow(DepartureDateTime(row, currentDateTime),
                                     currentDateTime, tenMinutesLater)
                    THEN "keep"
                    ELSE "skip"

UpcomingEntry_lastDestination(startStopTime, stopTimesDF, tripsDF, endStop) ==
    LET trip == FirstOrUndefined(
                    SelectSeq(tripsDF, LAMBDA t : t.trip_id = startStopTime.trip_id))
        ends == SelectSeq(stopTimesDF,
                          LAMBDA st : /\ st.trip_id = startStopTime.trip_id
                                      /\ st.stop_id = endStop.stop_id)
    IN  [startStopTime |-> startStopTime,
         endStopTime |-> IF ends = <<>> THEN Undefined ELSE ends[Len(ends)],
         routeId |-> IF trip # Undefined THEN trip.route_id ELSE <<>>]

\* Lines 689-693: one entry per stop time kept.
UpcomingEntry(startStopTime, stopTimesDF, tripsDF, endStop) ==
    LET trip == FirstOrUndefined(
                    SelectSeq(tripsDF, LAMBDA t : t.trip_id = startStopTime.trip_id))
        endStopTime == FirstOrUndefined(
                    SelectSeq(stopTimesDF,
                              LAMBDA st : /\ st.trip_id = startStopTime.trip_id
                                          /\ st.stop_id = endStop.stop_id))
    IN  [startStopTime |-> startStopTime,
         endStopTime |-> endStopTime,
         routeId |-> IF trip # Undefined THEN trip.route_id ELSE <<>>]

\* Lines 623-694: the filter runs the criteria on every row in table order
\* (an exception thrown by it ends the call), then the kept rows are mapped
\* to entries.
FilterTripsForUpcomingDepartures(stopTimesDF, tripsDF, routesDF, route, startStop, endStop, currentDateTime, calendarDF, calendarDatesDF) ==
    LET outcomes == [i \in 1..Len(stopTimesDF) |->
                        RowOutcome(stopTimesDF[i], tripsDF, routesDF, route,
                                   startStop, currentDateTime, calendarDF,
                                   calendarDatesDF)]
        kept == SelectSeq([i \in 1..Len(stopTimesDF) |-> i],
                          LAMBDA i : outcomes[i] = "keep")
    IN  IF \E i \in 1..Len(stopTimesDF) : outcomes[i] = "throw"
        THEN Throw("TypeError")
        ELSE Return([k \in 1..Len(kept) |->
                        UpcomingEntry(stopTimesDF[kept[k]], stopTimesDF, tripsDF,
                                      endStop)])

\* Route identifiers of the static tables and the feeds.
Route66 == <<"6", "6", "-", "3", "7", "3", "4">>

Route66Variant == <<"6", "6", "-", "3", "7", "3", "5">>

Route67 == <<"6", "7", "-", "3", "7", "3", "4">>

RouteUnknown == <<"9", "9", "-", "1">>

\* routes.txt: RouteUnknown has no row.
RoutesTable ==
    <<[route_id |-> Route66, route_short_name |-> "66"],
      [route_id |-> Route67, route_short_name |-> "67"]>>

TripRow(tripId, routeId, serviceId) ==
    [trip_id |-> tripId, route_id |-> routeId, service_id |-> serviceId]

\* trips.txt: trip1 runs route 66 on service1; trip2 is absent, or runs
\* route 66 or 67 or a route that routes.txt lacks, on service1 or service2.
TripsTables ==
    {<<TripRow("trip1", Route66, "service1")>>} \cup
    {<<TripRow("trip1", Route66, "service1"), TripRow("trip2", r, sv)>> :
        <<r, sv>> \in {<<Route66, "service1">>, <<Route67, "service1">>,
                       <<Route66, "service2">>, <<RouteUnknown, "service1">>}}

\* calendar.txt: service1 runs every day of 2024; service2 has no row.
DeparturesCalendar == <<CalendarRow("service1", AllDays, DateKey(1, 1), DateKey(12, 31))>>

DeparturesExceptionTables ==
    {<<>>,
     <<[service_id |-> "service1", date |-> DateKey(8, 28), exception_type |-> "2"]>>,
     <<[service_id |-> "service1", date |-> DateKey(8, 29), exception_type |-> "2"]>>}

\* The query: route 66 from stop 1 to stop 2 on Thursday 29 August 2024,
\* at 09:55 or at 23:55 (main builds the instant from a date and an HH:mm
\* time, so it has no seconds).
DeparturesQueryTimes == {ClockHM(9, 55), ClockHM(23, 55)}

\* Departure clock times at the origin, around the two windows
\* [09:55, 10:05] and [23:55, 24:05].
OriginClocks ==
    {ClockHMS(9, 54, 59), ClockHMS(9, 55, 0), ClockHMS(10, 0, 0),
     ClockHMS(10, 5, 0), ClockHMS(10, 5, 1), ClockHMS(23, 55, 0),
     ClockHMS(24, 5, 0)}

StopTimeRow(tripId, stopId, departure, arrival) ==
    [trip_id |-> tripId, stop_id |-> stopId,
     departure_time |-> departure, arrival_time |-> arrival]

\* Fewer clock times for the second trip.
Trip2Clocks == {ClockHMS(10, 0, 0), ClockHMS(10, 5, 0), ClockHMS(10, 5, 1)}

\* stop_times.txt rows: at the origin with a departure time, with only an
\* arrival time, or with neither; and one per trip at the destination.
StopTimeRows ==
    {StopTimeRow("trip1", "1", c, c) : c \in OriginClocks}
        \cup {StopTimeRow("trip2", "1", c, c) : c \in Trip2Clocks}
        \cup {StopTimeRow("trip1", "1", <<>>, ClockHMS(10, 0, 0)),
              StopTimeRow("trip1", "1", <<>>, <<>>)}
        \cup {StopTimeRow(t, "2", ClockHMS(10, 20, 0), ClockHMS(10, 20, 0)) :
                t \in {"trip1", "trip2"}}

MaxStopTimes == 2

InitDepartures ==
    /\ pc = "ready"
    /\ \E stopTimesDF \in SeqsUpTo(StopTimeRows, MaxStopTimes),
          tripsDF \in TripsTables,
          calendarDatesDF \in DeparturesExceptionTables,
          time \in DeparturesQueryTimes :
          call = [op |-> "filterTripsForUpcomingDepartures",
                  stopTimesDF |-> stopTimesDF,
                  tripsDF |-> tripsDF,
                  routesDF |-> RoutesTable,
                  route |-> "66",
                  startStop |-> [stop_id |-> "1"],
                  endStop |-> [stop_id |-> "2"],
                  currentDateTime |-> NewDateBrisbane(ISODate(8, 29), time),
                  calendarDF |-> DeparturesCalendar,
                  calendarDatesDF |-> calendarDatesDF]
    /\ ret = Pending

DoFilterTripsForUpcomingDepartures ==
    /\ pc = "ready"
    /\ call.op = "filterTripsForUpcomingDepartures"
    /\ ret' = FilterTripsForUpcomingDepartures(
                  call.stopTimesDF, call.tripsDF, call.routesDF, call.route,
                  call.startStop, call.endStop, call.currentDateTime,
                  call.calendarDF, call.calendarDatesDF)
    /\ pc' = "done"
    /\ UNCHANGED call

SpecDepartures == InitDepartures /\ [][DoFilterTripsForUpcomingDepartures]_vars

\* The call returned a list of entries.
ReturnedEntries ==
    Returned("filterTripsForUpcomingDepartures") /\ ret.kind = "return"

\* The stop time is the start of an entry of the result.
IsReturned(row) == \E j \in 1..Len(ret.value) : ret.value[j].startStopTime = row

\* The clock string of a stop time and whether it has one.
ClockOf(row) ==
    IF row.departure_time # <<>> THEN row.departure_time ELSE row.arrival_time

\* The instant an "HH:MM:SS" clock string names on the local calendar day of
\* the query, seconds included, read off the characters of the string.
ClockInstant(clock, now) ==
    ((now + BrisbaneOffset) \div SecondsPerDay) * SecondsPerDay - BrisbaneOffset
        + MinuteOfDay(clock) * 60 + DigitVal(clock[7]) * 10 + DigitVal(clock[8])

TripsOf(row) == SelectSeq(call.tripsDF, LAMBDA t : t.trip_id = row.trip_id)

RoutesOf(trip) == SelectSeq(call.routesDF, LAMBDA r : r.route_id = trip.route_id)

\* An origin stop time of the requested route whose service is running.
Eligible(row) ==
    /\ row.stop_id = call.startStop.stop_id
    /\ TripsOf(row) # <<>>
    /\ RoutesOf(TripsOf(row)[1]) # <<>>
    /\ RoutesOf(TripsOf(row)[1])[1].route_short_name = call.route
    /\ IsServiceRunning(call.calendarDF, call.calendarDatesDF,
                        TripsOf(row)[1].service_id, call.currentDateTime)

\* C6: the window is [now, now + 10 minutes], closed at both ends: of the
\* origin stop times of the requested route with a running service, one
\* departing exactly at now and one departing exactly at now + 10 minutes
\* are returned, and one departing before now is not.
C6_WindowClosedBothEnds ==
    ReturnedEntries =>
        \A i \in 1..Len(call.stopTimesDF) :
            LET row == call.stopTimesDF[i]
                dep == ClockInstant(ClockOf(row), call.currentDateTime)
            IN  (Eligible(row) /\ ClockOf(row) # <<>>) =>
                    /\ dep = call.currentDateTime => IsReturned(row)
                    /\ dep = call.currentDateTime + 600 => IsReturned(row)
                    /\ dep < call.currentDateTime => ~IsReturned(row)

\* The case of the test suite: at 09:55, the departures 10:00:00 of trip1 and
\* 10:05:00 of trip2 (the end of the window) are both returned, in order.
C6_Witness ==
    /\ ReturnedEntries
    /\ call.currentDateTime = NewDateBrisbane(ISODate(8, 29), ClockHM(9, 55))
    /\ call.stopTimesDF =
          <<StopTimeRow("trip1", "1", ClockHMS(10, 0, 0), ClockHMS(10, 0, 0)),
            StopTimeRow("trip2", "1", ClockHMS(10, 5, 0), ClockHMS(10, 5, 0))>>
    /\ Len(ret.value) = 2
    /\ ret.value[1].startStopTime = call.stopTimesDF[1]
    /\ ret.value[2].startStopTime = call.stopTimesDF[2]

\* C7: no stop time whose departure clock time is later than now + 10
\* minutes is returned, be it later by a single second.
C7_NothingAfterWindow ==
    ReturnedEntries =>
        \A j \in 1..Len(ret.value) :
            LET row == ret.value[j].startStopTime
            IN  ClockOf(row) # <<>> =>
                    ClockInstant(ClockOf(row), call.currentDateTime)
                        <= call.currentDateTime + 600

\* C8: every entry returned starts at the origin stop, on a trip of the
\* trips table whose service is running at the query date according to
\* isServiceRunning and whose route has the requested short code.
C8_EntriesAreEligible ==
    ReturnedEntries =>
        \A j \in 1..Len(ret.value) : Eligible(ret.value[j].startStopTime)

\* A departure inside the window on a trip of route 67 is left out while
\* one of route 66 is returned.
C8_Witness ==
    /\ ReturnedEntries
    /\ call.stopTimesDF =
          <<StopTimeRow("trip2", "1", ClockHMS(10, 0, 0), ClockHMS(10, 0, 0)),
            StopTimeRow("trip1", "1", ClockHMS(10, 0, 0), ClockHMS(10, 0, 0))>>
    /\ call.tripsDF = <<TripRow("trip1", Route66, "service1"),
                        TripRow("trip2", Route67, "service1")>>
    /\ Len(ret.value) = 1
    /\ ret.value[1].startStopTime = call.stopTimesDF[2]

\* The stop time refers to a trip the trips table lacks, or its trip to a
\* route the routes table lacks.
HasReferentialGap(row) ==
    \/ TripsOf(row) = <<>>
    \/ TripsOf(row) # <<>> /\ RoutesOf(TripsOf(row)[1]) = <<>>

\* C19: a stop time whose trip does not exist, or whose trip's route is not
\* in the routes table, is left out and never makes the call fail: the call
\* returns, without that stop time and with the eligible departures at the
\* start of the window.
C19_GapsSkippedNotRaised ==
    Returned("filterTripsForUpcomingDepartures") =>
        /\ ret.kind = "return"
        /\ \A i \in 1..Len(call.stopTimesDF) :
              LET row == call.stopTimesDF[i]
              IN  /\ HasReferentialGap(row) => ~IsReturned(row)
                  /\ (/\ Eligible(row)
                      /\ ClockOf(row) # <<>>
                      /\ ClockInstant(ClockOf(row), call.currentDateTime)
                             = call.currentDateTime) => IsReturned(row)

\* stop_times.txt rows for the pairing of origin and destination: the two
\* trips at the origin (the later departure is trip2's), trip1 twice at the
\* destination, trip2 at the destination, and trip1 at a third stop.
PairingRows ==
    {StopTimeRow("trip1", "1", ClockHMS(10, 0, 0), ClockHMS(10, 0, 0)),
     StopTimeRow("trip2", "1", ClockHMS(10, 5, 0), ClockHMS(10, 5, 0)),
     StopTimeRow("trip1", "2", ClockHMS(10, 20, 0), ClockHMS(10, 20, 0)),
     StopTimeRow("trip1", "2", ClockHMS(10, 25, 0), ClockHMS(10, 25, 0)),
     StopTimeRow("trip2", "2", ClockHMS(10, 20, 0), ClockHMS(10, 20, 0)),
     StopTimeRow("trip1", "3", ClockHMS(10, 30, 0), ClockHMS(10, 30, 0))}

\* trips.txt: both trips on route 66, or trip2 on the variant of route 66
\* that routes.txt lists under another short name.
PairingTrips ==
    {<<TripRow("trip1", Route66, "service1"), TripRow("trip2", r, "service1")>> :
        r \in {Route66, Route67}}

MaxPairingRows == 3

InitPairing ==
    /\ pc = "ready"
    /\ \E stopTimesDF \in SeqsUpTo(PairingRows, MaxPairingRows),
          tripsDF \in PairingTrips,
          time \in DeparturesQueryTimes :
          call = [op |-> "filterTripsForUpcomingDepartures",
                  stopTimesDF |-> stopTimesDF,
                  tripsDF |-> tripsDF,
                  routesDF |-> RoutesTable,
                  route |-> "66",
                  startStop |-> [stop_id |-> "1"],
                  endStop |-> [stop_id |-> "2"],
                  currentDateTime |-> NewDateBrisbane(ISODate(8, 29), time),
                  calendarDF |-> DeparturesCalendar,
                  calendarDatesDF |-> <<>>]
    /\ ret = Pending

SpecPairing == InitPairing /\ [][DoFilterTripsForUpcomingDepartures]_vars

\* The stop times of the table at the destination stop for the trip of row.
DestinationsOf(row) ==
    SelectSeq(call.stopTimesDF,
              LAMBDA st : st.trip_id = row.trip_id /\ st.stop_id = call.endStop.stop_id)

\* C21: the origin stop times of the entries returned are the stop times of
\* the table that are returned, in the order of the table (whatever their
\* clock times); each entry has the first stop time of its trip at the
\* destination stop, or none when the table has no such row, and the route
\* id of its trip.
C21_TableOrderAndPairing ==
    ReturnedEntries =>
        /\ [j \in 1..Len(ret.value) |-> ret.value[j].startStopTime]
               = SelectSeq(call.stopTimesDF, IsReturned)
        /\ \A j \in 1..Len(ret.value) :
              LET row == ret.value[j].startStopTime
              IN  /\ ret.value[j].endStopTime =
                         IF DestinationsOf(row) = <<>> THEN Undefined
                         ELSE DestinationsOf(row)[1]
                  /\ TripsOf(row) # <<>>
                  /\ ret.value[j].routeId = TripsOf(row)[1].route_id

\* At 09:55 the table lists the 10:05:00 departure of trip2 before the
\* 10:00:00 departure of trip1 and only trip1 at the destination: trip2's
\* entry comes first, without a destination row.
C21_Witness ==
    /\ ReturnedEntries
    /\ call.stopTimesDF =
          <<StopTimeRow("trip2", "1", ClockHMS(10, 5, 0), ClockHMS(10, 5, 0)),
            StopTimeRow("trip1", "1", ClockHMS(10, 0, 0), ClockHMS(10, 0, 0)),
            StopTimeRow("trip1", "2", ClockHMS(10, 20, 0), ClockHMS(10, 20, 0))>>
    /\ Len(ret.value) = 2
    /\ ret.value[1].startStopTime = call.stopTimesDF[1]
    /\ ret.value[1].endStopTime = Undefined
    /\ ret.value[2].startStopTime = call.stopTimesDF[2]
    /\ ret.value[2].endStopTime = call.stopTimesDF[3]
    /\ ret.value[2].routeId = Route66

(***************************************************************************)
(* matchLiveData                                                           *)
(*                                                                         *)
(* A feed argument is null, undefined or an array of entities; an entity   *)
(* is a record that has only the fields its JSON object has, so reading a  *)
(* field it lacks yields undefined, and reading a field of undefined       *)
(* throws a TypeError.                                                     *)
(***************************************************************************)

Null == [kind |-> "null"]

Array(items) == [kind |-> "array", items |-> items]

\* !x for a feed argument: null and undefined are falsy, an array (an empty
\* one too) is truthy.
Falsy(x) == x.kind \in {"null", "undefined"}

Has(obj, field) == field \in DOMAIN obj

\* The sentinel 'N/A'.
NA == <<"N", "/", "A">>

LiveDataUnavailable_bothMissing(tripUpdates, vehiclePositions) ==
    Falsy(tripUpdates) /\ Falsy(vehiclePositions)

\* Line 464.
LiveDataUnavailable(tripUpdates, vehiclePositions) ==
    Falsy(tripUpdates) \/ Falsy(vehiclePositions)

\* Lines 471-476, the predicate of tripUpdates.find.
IsRelevantTripUpdate(update, routeId, tripId) ==
    /\ Has(update, "tripUpdate")
    /\ Has(update.tripUpdate, "trip")
    /\ Has(update.tripUpdate.trip, "tripId")
    /\ update.tripUpdate.trip.tripId = tripId
    /\ Has(update.tripUpdate.trip, "routeId")
    /\ update.tripUpdate.trip.routeId = routeId

\* The least element of a non-empty set of numbers.
Min(S) == CHOOSE x \in S : \A y \in S : x <= y

\* Array.prototype.find, given the indices of the elements that satisfy the
\* predicate: the first of them, 0 when there is none.
FindIndex(hits) == IF hits = {} THEN 0 ELSE Min(hits)

\* `time` is truthy: the feed carries times as strings of digits, and only
\* the empty string is falsy.
HasTime(stu, field) ==
    Has(stu, field) /\ Has(stu[field], "time") /\ stu[field].time # <<>>

\* Lines 491-497: new Date(parseInt(time) * 1000) as a Brisbane clock time,
\* "HH:MM".
LocaleTimeBrisbane(time) ==
    LET t == Number(time) + BrisbaneOffset
    IN  ClockHM((t \div 3600) % 24, (t \div 60) % 60)

\* Lines 485-498.
LiveArrivalTime(stopTimeUpdates, stopTime) ==
    LET k == FindIndex({i \in 1..Len(stopTimeUpdates) :
                           /\ Has(stopTimeUpdates[i], "stopId")
                           /\ stopTimeUpdates[i].stopId = stopTime.stop_id})
    IN  IF k = 0 THEN NA
        ELSE IF HasTime(stopTimeUpdates[k], "arrival")
        THEN LocaleTimeBrisbane(stopTimeUpdates[k].arrival.time)
        ELSE IF HasTime(stopTimeUpdates[k], "departure")
        THEN LocaleTimeBrisbane(stopTimeUpdates[k].departure.time)
        ELSE NA

\* Lines 500-503, the predicate of vehiclePositions.find on one entity:
\* position.vehicle.trip.tripId throws when the entity has no vehicle or
\* the vehicle no trip.
VehicleOutcome(position, routeId, tripId) ==
    IF ~Has(position, "vehicle") \/ ~Has(position.vehicle, "trip") THEN "throw"
    ELSE IF /\ Has(position.vehicle.trip, "tripId")
            /\ position.vehicle.trip.tripId = tripId
            /\ Has(position.vehicle.trip, "routeId")
            /\ position.vehicle.trip.routeId = routeId
    THEN "match"
    ELSE "pass"

\* Lines 469-516, both feeds being arrays.
MatchLiveFeeds(tripUpdates, vehiclePositions, stopTime, routeId, tripId) ==
    LET u == FindIndex({i \in 1..Len(tripUpdates) :
                           IsRelevantTripUpdate(tripUpdates[i], routeId, tripId)})
        v == FindIndex({i \in 1..Len(vehiclePositions) :
                           VehicleOutcome(vehiclePositions[i], routeId, tripId) # "pass"})
    IN  IF u = 0 THEN Return([liveArrivalTime |-> NA, livePosition |-> NA])
        ELSE IF ~Has(tripUpdates[u].tripUpdate, "stopTimeUpdate")
        THEN Throw("TypeError")
        ELSE IF v = 0
        THEN Return([liveArrivalTime |->
                         LiveArrivalTime(tripUpdates[u].tripUpdate.stopTimeUpdate,
                                         stopTime),
                     livePosition |-> NA])
        ELSE IF VehicleOutcome(vehiclePositions[v], routeId, tripId) = "throw"
        THEN Throw("TypeError")
        ELSE IF ~Has(vehiclePositions[v].vehicle, "position")
        THEN Throw("TypeError")
        ELSE Return([liveArrivalTime |->
                         LiveArrivalTime(tripUpdates[u].tripUpdate.stopTimeUpdate,
                                         stopTime),
                     livePosition |->
                         vehiclePositions[v].vehicle.position.latitude
                             \o <<",", " ">>
                             \o vehiclePositions[v].vehicle.position.longitude])

\* Lines 457-517. Past the guard of line 464 a feed that is not an array
\* has no find method to call.
MatchLiveData(tripUpdates, vehiclePositions, stopTime, routeId, tripId) ==
    IF LiveDataUnavailable(tripUpdates, vehiclePositions)
    THEN Return([liveArrivalTime |-> NA, livePosition |-> NA])
    ELSE IF tripUpdates.kind # "array" \/ vehiclePositions.kind # "array"
    THEN Throw("TypeError")
    ELSE MatchLiveFeeds(tripUpdates.items, vehiclePositions.items, stopTime,
                        routeId, tripId)

\* The trip descriptors of the feeds: the scheduled trip under its own
\* route id, under a route id that differs after the hyphen, and another
\* trip of the route.
FeedTrips ==
    {[tripId |-> "trip1", routeId |-> Route66],
     [tripId |-> "trip1", routeId |-> Route66Variant],
     [tripId |-> "trip2", routeId |-> Route66]}

\* 2024-08-29T10:00:00+10:00 and 10:02:00, in epoch seconds of the model.
Feed1000 == <<"3", "4", "5", "6", "0", "0">>

Feed1002 == <<"3", "4", "5", "7", "2", "0">>

\* Per-stop update lists: a prediction of the arrival at stop 1, of the
\* departure only, neither, and a list that has stop 2 only.
StopTimeUpdateLists ==
    {<<[stopId |-> "1", arrival |-> [time |-> Feed1000]]>>,
     <<[stopId |-> "1", departure |-> [time |-> Feed1002]]>>,
     <<[stopId |-> "1"]>>,
     <<[stopId |-> "2", arrival |-> [time |-> Feed1000]]>>}

\* Trip-update entities: without a tripUpdate, without the per-stop list,
\* and complete.
TripUpdateEntities ==
    {[id |-> "TU"]}
        \cup {[id |-> "TU", tripUpdate |-> [trip |-> t]] : t \in FeedTrips}
        \cup {[id |-> "TU", tripUpdate |-> [trip |-> t, stopTimeUpdate |-> l]] :
                t \in FeedTrips, l \in StopTimeUpdateLists}

VehiclePosition == [latitude |-> <<"-", "2", "7", ".", "5">>,
                    longitude |-> <<"1", "5", "3">>]

\* Vehicle-position entities: without a vehicle, a vehicle without a trip,
\* one without a position, and complete.
VehicleEntities ==
    {[id |-> "VP"],
     [id |-> "VP", vehicle |-> [position |-> VehiclePosition]],
     [id |-> "VP", vehicle |-> [trip |-> [tripId |-> "trip1", routeId |-> Route66]]]}
        \cup {[id |-> "VP", vehicle |-> [trip |-> t, position |-> VehiclePosition]] :
                t \in FeedTrips}

MaxTripUpdates == 2

MaxVehiclePositions == 1

FeedArguments(Entities, n) ==
    {Null, Undefined} \cup {Array(items) : items \in SeqsUpTo(Entities, n)}

InitLive ==
    /\ pc = "ready"
    /\ \E tripUpdates \in FeedArguments(TripUpdateEntities, MaxTripUpdates),
          vehiclePositions \in FeedArguments(VehicleEntities, MaxVehiclePositions) :
          call = [op |-> "matchLiveData",
                  tripUpdates |-> tripUpdates,
                  vehiclePositions |-> vehiclePositions,
                  stopTime |-> StopTimeRow("trip1", "1", ClockHMS(10, 0, 0),
                                           ClockHMS(10, 0, 0)),
                  routeId |-> Route66,
                  tripId |-> "trip1"]
    /\ ret = Pending

DoMatchLiveData ==
    /\ pc = "ready"
    /\ call.op = "matchLiveData"
    /\ ret' = MatchLiveData(call.tripUpdates, call.vehiclePositions, call.stopTime,
                            call.routeId, call.tripId)
    /\ pc' = "done"
    /\ UNCHANGED call

SpecLive == InitLive /\ [][DoMatchLiveData]_vars

\* C9: when tripUpdates or vehiclePositions is null or absent, matchLiveData
\* returns 'N/A' for both fields and does not throw, whatever the other
\* arguments are.
C9_MissingFeedGivesSentinels ==
    (/\ Returned("matchLiveData")
     /\ \/ call.tripUpdates \in {Null, Undefined}
        \/ call.vehiclePositions \in {Null, Undefined}) =>
        ret = Return([liveArrivalTime |-> NA, livePosition |-> NA])

\* The trip updates carry a matching prediction and only the vehicle feed is
\* absent: both fields are still the sentinel.
C9_Witness ==
    /\ Returned("matchLiveData")
    /\ call.vehiclePositions = Undefined
    /\ call.tripUpdates =
          Array(<<[id |-> "TU",
                   tripUpdate |->
                       [trip |-> [tripId |-> "trip1", routeId |-> Route66],
                        stopTimeUpdate |->
                            <<[stopId |-> "1", arrival |-> [time |-> Feed1000]]>>]]>>)
    /\ ret = Return([liveArrivalTime |-> NA, livePosition |-> NA])

\* The trip update is for the supplied trip, carries a predicted arrival at
\* the target stop, and its route id agrees with the scheduled one before
\* the first hyphen.
NormalizedMatch(update) ==
    /\ Has(update, "tripUpdate")
    /\ Has(update.tripUpdate, "stopTimeUpdate")
    /\ update.tripUpdate.trip.tripId = call.tripId
    /\ BeforeFirstHyphen(update.tripUpdate.trip.routeId)
           = BeforeFirstHyphen(call.routeId)
    /\ \E k \in 1..Len(update.tripUpdate.stopTimeUpdate) :
           /\ update.tripUpdate.stopTimeUpdate[k].stopId = call.stopTime.stop_id
           /\ HasTime(update.tripUpdate.stopTimeUpdate[k], "arrival")

\* C10: routes are matched by the normalization rule: a trip update for the
\* supplied trip whose route id differs from the scheduled one only after
\* the first hyphen is matched and yields a live arrival time. Stated for a
\* feed of that one trip update and no vehicle positions.
C10_RouteMatchedByNormalization ==
    (/\ Returned("matchLiveData")
     /\ call.vehiclePositions = Array(<<>>)
     /\ call.tripUpdates.kind = "array"
     /\ Len(call.tripUpdates.items) = 1
     /\ NormalizedMatch(call.tripUpdates.items[1])) =>
        /\ ret.kind = "return"
        /\ ret.value.liveArrivalTime # NA

\* The instant the scheduled arrival of the stop time names on the query
\* date, Thursday 29 August 2024.
ScheduledArrival ==
    ClockInstant(call.stopTime.arrival_time,
                 NewDateBrisbane(ISODate(8, 29), ClockHM(0, 0)))

\* The trip update is a candidate: it is for the supplied trip on the
\* scheduled route and its per-stop list has the target stop.
IsCandidate(update) ==
    /\ Has(update, "tripUpdate")
    /\ Has(update.tripUpdate, "stopTimeUpdate")
    /\ update.tripUpdate.trip.tripId = call.tripId
    /\ update.tripUpdate.trip.routeId = call.routeId
    /\ \E k \in 1..Len(update.tripUpdate.stopTimeUpdate) :
           update.tripUpdate.stopTimeUpdate[k].stopId = call.stopTime.stop_id

\* The per-stop update of a candidate for the target stop.
TargetUpdate(update) ==
    LET l == update.tripUpdate.stopTimeUpdate
    IN  l[Min({k \in 1..Len(l) : l[k].stopId = call.stopTime.stop_id})]

HasPrediction(update) ==
    HasTime(TargetUpdate(update), "arrival") \/ HasTime(TargetUpdate(update), "departure")

\* The predicted arrival of a candidate at the target stop, its predicted
\* departure when the arrival is absent.
Prediction(update) ==
    IF HasTime(TargetUpdate(update), "arrival")
    THEN TargetUpdate(update).arrival.time
    ELSE TargetUpdate(update).departure.time

Abs(x) == IF x < 0 THEN 0 - x ELSE x

Distance(update) == Abs(Number(Prediction(update)) - ScheduledArrival)

\* Every trip update of the feed carries a per-stop list and names the
\* scheduled route id itself, so that exact and normalized matching agree on
\* the feed.
FeedRoutesExact ==
    \A i \in 1..Len(call.tripUpdates.items) :
        /\ Has(call.tripUpdates.items[i], "tripUpdate")
        /\ Has(call.tripUpdates.items[i].tripUpdate, "stopTimeUpdate")
        /\ call.tripUpdates.items[i].tripUpdate.trip.routeId = call.routeId

\* C11: among the candidates (route and trip matched, target stop in the
\* per-stop list) the one whose prediction at the target stop is closest to
\* the scheduled arrival is chosen, the first in the feed on a tie; so when
\* a candidate carries a prediction, liveArrivalTime is that prediction and
\* not the sentinel. Stated for feeds of complete trip updates whose route
\* ids are the scheduled one and whose candidates all carry a prediction, and
\* no vehicle positions.
C11_ClosestCandidateChosen ==
    (/\ Returned("matchLiveData")
     /\ call.vehiclePositions = Array(<<>>)
     /\ call.tripUpdates.kind = "array"
     /\ FeedRoutesExact
     /\ \E i \in 1..Len(call.tripUpdates.items) :
            IsCandidate(call.tripUpdates.items[i])
     /\ \A i \in 1..Len(call.tripUpdates.items) :
            IsCandidate(call.tripUpdates.items[i])
                => HasPrediction(call.tripUpdates.items[i])) =>
        LET items == call.tripUpdates.items
            cands == {i \in 1..Len(items) : IsCandidate(items[i])}
            best == Min({i \in cands :
                            \A j \in cands : Distance(items[i]) <= Distance(items[j])})
        IN  /\ ret.kind = "return"
            /\ ret.value.liveArrivalTime # NA
            /\ ret.value.liveArrivalTime = LocaleTimeBrisbane(Prediction(items[best]))

\* C22: for feeds that are arrays, whatever nested fields their entities
\* lack, matchLiveData returns and does not raise; liveArrivalTime is the
\* sentinel when no trip update is for the supplied route and trip, and
\* livePosition is the sentinel when no vehicle entity is.
C22_TotalOverLooseFeeds ==
    (/\ Returned("matchLiveData")
     /\ call.tripUpdates.kind = "array"
     /\ call.vehiclePositions.kind = "array") =>
        /\ ret.kind = "return"
        /\ (\A i \in 1..Len(call.tripUpdates.items) :
               ~IsRelevantTripUpdate(call.tripUpdates.items[i], call.routeId,
                                     call.tripId))
               => ret.value.liveArrivalTime = NA
        /\ (\A i \in 1..Len(call.vehiclePositions.items) :
               VehicleOutcome(call.vehiclePositions.items[i], call.routeId,
                              call.tripId) # "match")
               => ret.value.livePosition = NA

\* The vehicle entity is for the scheduled route, by the normalization rule,
\* and for the supplied trip (the trip of the chosen trip update).
VehicleMatches(position) ==
    /\ Has(position, "vehicle")
    /\ Has(position.vehicle, "trip")
    /\ position.vehicle.trip.tripId = call.tripId
    /\ BeforeFirstHyphen(position.vehicle.trip.routeId)
           = BeforeFirstHyphen(call.routeId)

\* C12: livePosition is "latitude, longitude" of the first vehicle entity
\* whose route matches and whose trip is the chosen trip update's, and the
\* sentinel when there is none. Stated for a feed whose first trip update is
\* chosen by the code and for well-formed vehicle entities.
C12_PositionOfFirstMatchingVehicle ==
    (/\ Returned("matchLiveData")
     /\ call.tripUpdates.kind = "array"
     /\ call.vehiclePositions.kind = "array"
     /\ Len(call.tripUpdates.items) >= 1
     /\ IsCandidate(call.tripUpdates.items[1])
     /\ \A i \in 1..Len(call.vehiclePositions.items) :
            /\ Has(call.vehiclePositions.items[i], "vehicle")
            /\ Has(call.vehiclePositions.items[i].vehicle, "trip")
            /\ Has(call.vehiclePositions.items[i].vehicle, "position")) =>
        LET items == call.vehiclePositions.items
            hits == {i \in 1..Len(items) : VehicleMatches(items[i])}
        IN  /\ ret.kind = "return"
            /\ ret.value.livePosition =
                  IF hits = {} THEN NA
                  ELSE items[Min(hits)].vehicle.position.latitude
                          \o <<",", " ">>
                          \o items[Min(hits)].vehicle.position.longitude

(***************************************************************************)
(* Dataframe (src/dataframe.ts). A table is the sequence of its rows, a    *)
(* row a record that has the columns its object has. A cell read from a    *)
(* row is <<v>> when the row has the column and <<>> (undefined) when not. *)
(***************************************************************************)

\* row[column]
Cell(row, column) == IF column \in DOMAIN row THEN <<row[column]>> ELSE <<>>

Merge_leftWins(row, matchingRow) ==
    [f \in (DOMAIN row) \cup (DOMAIN matchingRow) |->
        IF f \in DOMAIN row THEN row[f] ELSE matchingRow[f]]

\* { ...row, ...matchingRow }
Merge(row, matchingRow) ==
    [f \in (DOMAIN row) \cup (DOMAIN matchingRow) |->
        IF f \in DOMAIN matchingRow THEN matchingRow[f] ELSE row[f]]

\* [a, b, ...].map(f) for the merged rows of one left row.
MergeAll(row, matchingRows) ==
    [k \in 1..Len(matchingRows) |-> Merge(row, matchingRows[k])]

\* Array.prototype.flatMap: the concatenation of the pieces.
RECURSIVE Flatten(_)
Flatten(pieces) ==
    IF pieces = <<>> THEN <<>> ELSE Head(pieces) \o Flatten(Tail(pieces))

\* Dataframe.join
Join(data, other, key, keepUnmatched) ==
    Flatten([i \in 1..Len(data) |->
        LET row == data[i]
            matchingRows ==
                SelectSeq(other, LAMBDA otherRow : Cell(otherRow, key) = Cell(row, key))
        IN  IF Len(matchingRows) > 0 THEN MergeAll(row, matchingRows)
            ELSE IF keepUnmatched THEN <<row>>
            ELSE <<>>])

\* Dataframe.select
Select(data, columns) ==
    [i \in 1..Len(data) |->
        [col \in {c \in columns : c \in DOMAIN data[i]} |-> data[i][col]]]

Distinct_keepLast(data, column) ==
    LET keep == SelectSeq([i \in 1..Len(data) |-> i],
                          LAMBDA i : ~\E k \in (i + 1)..Len(data) :
                                          Cell(data[k], column) = Cell(data[i], column))
    IN  [k \in 1..Len(keep) |-> data[keep[k]]]

\* The filter callback of distinct run over the rows in order, `seen` being
\* the set of the keys met so far.
RECURSIVE DistinctFrom(_, _, _)
DistinctFrom(data, column, seen) ==
    IF data = <<>> THEN <<>>
    ELSE LET key == Cell(Head(data), column)
         IN  IF key \in seen THEN DistinctFrom(Tail(data), column, seen)
             ELSE <<Head(data)>> \o DistinctFrom(Tail(data), column, seen \cup {key})

\* Dataframe.distinct
Distinct(data, column) == DistinctFrom(data, column, {})

\* The characters of the cells that are sorted, in the order of their code
\* units.
CharOrder == <<"0", "1", "2", "3", "4", "5", "6", "7", "8", "9", "B", "a">>

CharCode(c) == CHOOSE i \in 1..Len(CharOrder) : CharOrder[i] = c

\* a < b on two strings: by code units at the first difference, a proper
\* prefix before the longer string.
StringLess(a, b) ==
    \E n \in 0..Len(a) :
        /\ n <= Len(b)
        /\ \A i \in 1..n : a[i] = b[i]
        /\ \/ n = Len(a) /\ n < Len(b)
           \/ n < Len(a) /\ n < Len(b) /\ CharCode(a[n + 1]) < CharCode(b[n + 1])

\* parseFloat of a cell, for strings of digits and letters: the value of
\* the longest prefix of digits, NaN when the string does not start with a
\* digit or the cell is undefined.
ParseFloat(cell) ==
    IF cell = <<>> THEN NaN
    ELSE LET str == cell[1]
             stops == {i \in 1..Len(str) : ~IsDigit(str[i])}
             n == IF stops = {} THEN Len(str) ELSE Min(stops) - 1
         IN  IF n = 0 THEN NaN ELSE DigitsValue(SubSeq(str, 1, n), 0)

Compare_alwaysAscending(a, b, key, ascending) ==
    LET aValue == ParseFloat(Cell(a, key))
        bValue == ParseFloat(Cell(b, key))
    IN  IF IsNaN(aValue) \/ IsNaN(bValue)
        THEN IF Cell(a, key) = <<>> \/ Cell(b, key) = <<>> THEN 0
             ELSE IF StringLess(a[key], b[key]) THEN 0 - 1
             ELSE IF StringLess(b[key], a[key]) THEN 1
             ELSE 0
        ELSE aValue - bValue

\* The comparison function of sort, lines 106-117. A comparison with
\* undefined is false either way.
Compare(a, b, key, ascending) ==
    LET aValue == ParseFloat(Cell(a, key))
        bValue == ParseFloat(Cell(b, key))
    IN  IF IsNaN(aValue) \/ IsNaN(bValue)
        THEN IF Cell(a, key) = <<>> \/ Cell(b, key) = <<>> THEN 0
             ELSE IF StringLess(a[key], b[key]) THEN (IF ascending THEN 0 - 1 ELSE 1)
             ELSE IF StringLess(b[key], a[key]) THEN (IF ascending THEN 1 ELSE 0 - 1)
             ELSE 0
        ELSE IF ascending THEN aValue - bValue ELSE bValue - aValue

\* Array.prototype.sort with a comparison function is stable: an element is
\* placed after every element already placed that does not compare greater.
RECURSIVE SortedPrefix(_, _, _, _)
SortedPrefix(data, n, key, ascending) ==
    IF n = 0 THEN <<>>
    ELSE LET done == SortedPrefix(data, n - 1, key, ascending)
             x == data[n]
             after == {i \in 1..Len(done) : Compare(done[i], x, key, ascending) > 0}
             at == IF after = {} THEN Len(done) + 1 ELSE Min(after)
         IN  SubSeq(done, 1, at - 1) \o <<x>> \o SubSeq(done, at, Len(done))

\* Dataframe.sort: the sorted copy.
Sort(data, key, ascending) == SortedPrefix(data, Len(data), key, ascending)

\* this.data after sort: [...this.data] is sorted, not this.data.
DataAfterSort(data, key, ascending) == data

\* The longest table an operation is called on, and the longest right-hand
\* table of a join.
MaxRows == 3

MaxOtherRows == 2

\* Left rows of a join: two with id 1, one with id 2, one without an id.
JoinLeftRows ==
    {[id |-> "1", name |-> "Alice"], [id |-> "2", name |-> "Bob"],
     [id |-> "1", name |-> "Charlie"], [name |-> "Alice"]}

\* Right rows of a join: one of them has a name of its own, one has no id.
JoinRightRows ==
    {[id |-> "1", city |-> "New York"], [id |-> "2", city |-> "London"],
     [id |-> "1", name |-> "Zoe", city |-> "London"], [city |-> "New York"]}

\* Rows for distinct('name'), one of them without a name.
DistinctRows ==
    [id : {"1", "2", "3"}, name : {"Alice", "Bob"}] \cup {[id |-> "1"]}

\* Keys rows are sorted by: numbers whose numeric and string orders differ,
\* two numerals of the same number, and words.
SortKeys ==
    {<<"1", "0">>, <<"9">>, <<"0", "9">>, <<"a">>, <<"B">>}

SortRows == [id : {"x", "y"}, age : SortKeys]

InitJoin ==
    /\ pc = "ready"
    /\ call \in [op : {"join"},
                 data : SeqsUpTo(JoinLeftRows, MaxRows),
                 other : SeqsUpTo(JoinRightRows, MaxOtherRows),
                 key : {"id"},
                 keepUnmatched : BOOLEAN]
    /\ ret = Pending

InitDistinct ==
    /\ pc = "ready"
    /\ call \in [op : {"distinct"},
                 data : SeqsUpTo(DistinctRows, MaxRows),
                 column : {"name"}]
    /\ ret = Pending

InitSort ==
    /\ pc = "ready"
    /\ call \in [op : {"sort"},
                 data : SeqsUpTo(SortRows, MaxRows),
                 key : {"age"},
                 ascending : BOOLEAN]
    /\ ret = Pending

InitDataframe == InitJoin \/ InitDistinct \/ InitSort

DoJoin ==
    /\ pc = "ready"
    /\ call.op = "join"
    /\ ret' = Join(call.data, call.other, call.key, call.keepUnmatched)
    /\ pc' = "done"
    /\ UNCHANGED call

DoDistinct ==
    /\ pc = "ready"
    /\ call.op = "distinct"
    /\ ret' = Distinct(call.data, call.column)
    /\ pc' = "done"
    /\ UNCHANGED call

\* sort returns the sorted copy; `receiver` is this.data after the call.
DoSort ==
    /\ pc = "ready"
    /\ call.op = "sort"
    /\ ret' = [sorted |-> Sort(call.data, call.key, call.ascending),
               receiver |-> DataAfterSort(call.data, call.key, call.ascending)]
    /\ pc' = "done"
    /\ UNCHANGED call

SpecDataframe == InitDataframe /\ [][DoJoin \/ DoDistinct \/ DoSort]_vars

\* The output slots of a join: a pair <<i, j>> for every left row i and right
\* row j with equal keys and, when unmatched rows are kept, <<i, 0>> for
\* every left row i without a match.
JoinSlots ==
    {p \in (1..Len(call.data)) \X (0..Len(call.other)) :
        \/ /\ p[2] > 0
           /\ Cell(call.other[p[2]], call.key) = Cell(call.data[p[1]], call.key)
        \/ /\ p[2] = 0
           /\ call.keepUnmatched
           /\ \A j \in 1..Len(call.other) :
                  Cell(call.other[j], call.key) # Cell(call.data[p[1]], call.key)}

\* The place of a slot in left order, then right order.
SlotRank(p) ==
    Cardinality({q \in JoinSlots : q[1] < p[1] \/ (q[1] = p[1] /\ q[2] < p[2])}) + 1

\* C13: join emits one row per left row (in left order) and matching right
\* row (in right order), with the fields of both and the right row's value
\* where both have a field; a left row without a match is dropped, or is
\* emitted once unmerged when keepUnmatched is set. The number of rows is
\* the number of slots, which does not depend on the order of the rows.
C13_JoinPairsInOrder ==
    Returned("join") =>
        /\ Len(ret) = Cardinality(JoinSlots)
        /\ \A p \in JoinSlots :
              LET l == call.data[p[1]]
                  out == ret[SlotRank(p)]
              IN  IF p[2] = 0 THEN out = l
                  ELSE LET r == call.other[p[2]]
                       IN  /\ DOMAIN out = (DOMAIN l) \cup (DOMAIN r)
                           /\ \A f \in DOMAIN r : out[f] = r[f]
                           /\ \A f \in (DOMAIN l) \ (DOMAIN r) : out[f] = l[f]

\* Three left rows against two right rows: the two rows with id 1 each meet
\* the right row of id 1, whose name overrides theirs, and the row of id 2
\* has no match and is dropped.
C13_Witness ==
    /\ Returned("join")
    /\ ~call.keepUnmatched
    /\ call.data = <<[id |-> "1", name |-> "Alice"], [id |-> "2", name |-> "Bob"],
                     [id |-> "1", name |-> "Charlie"]>>
    /\ call.other = <<[id |-> "1", name |-> "Zoe", city |-> "London"],
                      [id |-> "1", city |-> "New York"]>>
    /\ ret = <<[id |-> "1", name |-> "Zoe", city |-> "London"],
               [id |-> "1", name |-> "Alice", city |-> "New York"],
               [id |-> "1", name |-> "Zoe", city |-> "London"],
               [id |-> "1", name |-> "Charlie", city |-> "New York"]>>

\* The rows that carry the first occurrence of their column value.
FirstOccurrences ==
    SelectSeq([i \in 1..Len(call.data) |-> i],
              LAMBDA i : \A j \in 1..(i - 1) :
                             Cell(call.data[j], call.column) # Cell(call.data[i], call.column))

\* C14: distinct keeps exactly the first row of every column value, in the
\* original order; no two rows of the result share a value, and distinct of
\* the result is the result.
C14_DistinctFirstOccurrence ==
    Returned("distinct") =>
        /\ Len(ret) = Len(FirstOccurrences)
        /\ \A k \in 1..Len(ret) : ret[k] = call.data[FirstOccurrences[k]]
        /\ \A i, j \in 1..Len(ret) :
              Cell(ret[i], call.column) = Cell(ret[j], call.column) => i = j
        /\ Distinct(ret, call.column) = ret

\* [Alice, Bob, Alice] by name gives the first Alice and Bob.
C14_Witness ==
    /\ Returned("distinct")
    /\ call.data = <<[id |-> "1", name |-> "Alice"], [id |-> "2", name |-> "Bob"],
                     [id |-> "3", name |-> "Alice"]>>
    /\ ret = <<[id |-> "1", name |-> "Alice"], [id |-> "2", name |-> "Bob"]>>

\* A string is a number: all of it is digits.
IsNumeral(str) == str # <<>> /\ \A i \in 1..Len(str) : IsDigit(str[i])

\* Key u comes strictly before key v: as numbers when both are numbers, as
\* strings otherwise.
KeyBefore(u, v) ==
    IF IsNumeral(u) /\ IsNumeral(v) THEN DigitsValue(u, 0) < DigitsValue(v, 0)
    ELSE StringLess(u, v)

CombineDirections_inboundFirst(outboundStops, inboundStops) ==
    inboundStops \o outboundStops

\* Line 596: [...outboundStops, ...inboundStops]
CombineDirections(outboundStops, inboundStops) == outboundStops \o inboundStops

\* Lines 566-598: the stop times of the route's trips, joined with their
\* trips and stops, sorted, split by direction, made distinct by stop and
\* concatenated, outbound first.
CombinedStops(routeInfo, stopsDF, stopTimesDF, tripsDF) ==
    LET routeTrips == SelectSeq(tripsDF, LAMBDA row : row.route_id = routeInfo.route_id)
        stopTimesWithTrips == Join(stopTimesDF, routeTrips, "trip_id", FALSE)
        allStopTimes ==
            Select(Join(stopTimesWithTrips, stopsDF, "stop_id", FALSE),
                   {"stop_id", "stop_name", "stop_sequence", "direction_id"})
        sortedStopTimes ==
            Sort(Sort(allStopTimes, "direction_id", TRUE), "stop_sequence", TRUE)
        outboundStops ==
            Distinct(SelectSeq(sortedStopTimes,
                               LAMBDA row : Cell(row, "direction_id") = <<<<"0">>>>),
                     "stop_id")
        inboundStops ==
            Distinct(SelectSeq(sortedStopTimes,
                               LAMBDA row : Cell(row, "direction_id") = <<<<"1">>>>),
                     "stop_id")
    IN  CombineDirections(outboundStops, inboundStops)

\* Lines 601-603.
DropLoopEnd(combinedStops) ==
    IF /\ Len(combinedStops) > 0
       /\ combinedStops[1].stop_id = combinedStops[Len(combinedStops)].stop_id
    THEN SubSeq(combinedStops, 1, Len(combinedStops) - 1)
    ELSE combinedStops

\* Lines 552-608.
GetRouteStops(route, routesDF, stopsDF, stopTimesDF, tripsDF) ==
    LET routeInfo == FirstOrUndefined(
                         SelectSeq(routesDF, LAMBDA row : row.route_short_name = route))
    IN  IF routeInfo = Undefined THEN <<>>
        ELSE DropLoopEnd(CombinedStops(routeInfo, stopsDF, stopTimesDF, tripsDF))

\* stops.txt: three stops; a stop time at stop 9 has no stop row.
StopsTable ==
    <<[stop_id |-> "1", stop_name |-> "Stop 1"],
      [stop_id |-> "2", stop_name |-> "Stop 2"],
      [stop_id |-> "3", stop_name |-> "Stop 3"]>>

\* trips.txt: two outbound trips and an inbound trip of route 66, and a
\* trip of route 67.
StopsTripsTable ==
    <<[trip_id |-> "tripA", route_id |-> Route66, direction_id |-> <<"0">>],
      [trip_id |-> "tripB", route_id |-> Route66, direction_id |-> <<"1">>],
      [trip_id |-> "tripC", route_id |-> Route66, direction_id |-> <<"0">>],
      [trip_id |-> "tripX", route_id |-> Route67, direction_id |-> <<"0">>]>>

\* The longest list of stops a trip visits.
MaxItinerary == 2

\* The stops a trip visits, in order.
Itineraries == SeqsUpTo({"1", "2", "3"}, MaxItinerary)

\* The stop_sequence of the first, second, ... stop of a trip: from 1, or
\* from 9, where the order of the numbers and of the strings differ.
Numberings ==
    {<<<<"1">>, <<"2">>, <<"3">>, <<"4">>>>,
     <<<<"9">>, <<"1", "0">>, <<"1", "1">>, <<"1", "2">>>>}

\* The stop_times rows of a trip.
TripStopTimes(tripId, itinerary, numbering) ==
    [k \in 1..Len(itinerary) |->
        [trip_id |-> tripId, stop_id |-> itinerary[k], stop_sequence |-> numbering[k]]]

Reverse(rows) == [k \in 1..Len(rows) |-> rows[Len(rows) + 1 - k]]

\* stop_times.txt: the rows of tripA, tripB and tripC, one row of tripX at
\* stop 1 and one row of tripA at a stop that stops.txt lacks.
StopTimesTable(a, b, c, numbering) ==
    TripStopTimes("tripA", a, numbering) \o TripStopTimes("tripB", b, numbering)
        \o TripStopTimes("tripC", c, numbering)
        \o <<[trip_id |-> "tripX", stop_id |-> "1", stop_sequence |-> <<"1">>],
             [trip_id |-> "tripA", stop_id |-> "9", stop_sequence |-> <<"1">>]>>

InitStops ==
    /\ pc = "ready"
    /\ \E a \in Itineraries, b \in Itineraries,
          c \in {<<>>, <<"2">>, <<"3", "1">>},
          numbering \in Numberings, reversed \in BOOLEAN, route \in {"66", "99"} :
          call = [op |-> "getRouteStops",
                  route |-> route,
                  routesDF |-> RoutesTable,
                  stopsDF |-> StopsTable,
                  stopTimesDF |-> IF reversed
                                  THEN Reverse(StopTimesTable(a, b, c, numbering))
                                  ELSE StopTimesTable(a, b, c, numbering),
                  tripsDF |-> StopsTripsTable]
    /\ ret = Pending

DoGetRouteStops ==
    /\ pc = "ready"
    /\ call.op = "getRouteStops"
    /\ ret' = GetRouteStops(call.route, call.routesDF, call.stopsDF,
                            call.stopTimesDF, call.tripsDF)
    /\ pc' = "done"
    /\ UNCHANGED call

SpecStops == InitStops /\ [][DoGetRouteStops]_vars

\* The stop times that serve the requested route in direction d: their trip
\* is a trip of the route in that direction and their stop is a known stop.
ServedRows(d) ==
    {i \in 1..Len(call.stopTimesDF) :
        /\ \E t \in 1..Len(call.tripsDF) :
              /\ call.tripsDF[t].trip_id = call.stopTimesDF[i].trip_id
              /\ call.tripsDF[t].direction_id = d
              /\ \E r \in 1..Len(call.routesDF) :
                    /\ call.routesDF[r].route_short_name = call.route
                    /\ call.routesDF[r].route_id = call.tripsDF[t].route_id
        /\ \E k \in 1..Len(call.stopsDF) :
              call.stopsDF[k].stop_id = call.stopTimesDF[i].stop_id}

\* The stops served in direction d, and the least sequence number at which
\* a stop is served.
ServedStops(d) == {call.stopTimesDF[i].stop_id : i \in ServedRows(d)}

LeastSequence(d, stop) ==
    Min({Number(call.stopTimesDF[i].stop_sequence) :
            i \in {j \in ServedRows(d) : call.stopTimesDF[j].stop_id = stop}})

Directions == {<<"0">>, <<"1">>}

\* The served stops that the result lacks.
MissingStops ==
    {m \in Directions \X {"1", "2", "3"} :
        /\ m[2] \in ServedStops(m[1])
        /\ ~\E i \in 1..Len(ret) : ret[i].direction_id = m[1] /\ ret[i].stop_id = m[2]}

\* C16: for a known route the stops of direction 0 come before those of
\* direction 1; within a direction the stops are distinct, each with the
\* least sequence number at which it is served, in ascending order of that
\* number. The entries are stops that are served, and every served stop is
\* there but for the entry lines 601-603 take off the end of the sequence.
C16_DirectionsThenSequence ==
    (Returned("getRouteStops") /\ call.route = "66") =>
        /\ \A i, j \in 1..Len(ret) :
              i < j => /\ ~(ret[i].direction_id = <<"1">> /\ ret[j].direction_id = <<"0">>)
                       /\ ret[i].direction_id = ret[j].direction_id =>
                              /\ ret[i].stop_id # ret[j].stop_id
                              /\ Number(ret[i].stop_sequence) <= Number(ret[j].stop_sequence)
        /\ \A i \in 1..Len(ret) :
              /\ ret[i].direction_id \in Directions
              /\ ret[i].stop_id \in ServedStops(ret[i].direction_id)
              /\ Number(ret[i].stop_sequence)
                     = LeastSequence(ret[i].direction_id, ret[i].stop_id)
        /\ Cardinality(MissingStops) <= 1
        /\ \A m \in MissingStops :
              IF ret = <<>>
              THEN Cardinality(ServedStops(<<"0">>)) + Cardinality(ServedStops(<<"1">>)) = 1
              ELSE ret[1].stop_id = m[2]

\* One trip visiting stop 1 then stop 2 in direction 0, the rows of the
\* table in reverse order, numbered 9 and 10: [Stop 1, Stop 2].
C16_Witness ==
    /\ Returned("getRouteStops")
    /\ call.stopTimesDF =
          Reverse(StopTimesTable(<<"1", "2">>, <<>>, <<>>,
                                 <<<<"9">>, <<"1", "0">>, <<"1", "1">>, <<"1", "2">>>>))
    /\ ret = <<[stop_id |-> "1", stop_name |-> "Stop 1", stop_sequence |-> <<"9">>,
                direction_id |-> <<"0">>],
               [stop_id |-> "2", stop_name |-> "Stop 2", stop_sequence |-> <<"1", "0">>,
                direction_id |-> <<"0">>]>>

\* The concatenated outbound-then-inbound sequence of the call, before the
\* loop rule.
CombinedOfCall ==
    CombinedStops(FirstOrUndefined(
                      SelectSeq(call.routesDF,
                                LAMBDA row : row.route_short_name = call.route)),
                  call.stopsDF, call.stopTimesDF, call.tripsDF)

\* C17: the last entry of the combined sequence is dropped exactly when the
\* sequence has two or more entries and its first and last entries share a
\* stop id; a sequence of one stop is returned as it is.
C17_LoopEndDropped ==
    (Returned("getRouteStops") /\ call.route = "66") =>
        LET c == CombinedOfCall
        IN  ret = IF Len(c) >= 2 /\ c[1].stop_id = c[Len(c)].stop_id
                  THEN SubSeq(c, 1, Len(c) - 1)
                  ELSE c

\* C18: no stop id occurs twice in the result.
C18_NoStopTwice ==
    Returned("getRouteStops") =>
        \A i, j \in 1..Len(ret) : ret[i].stop_id = ret[j].stop_id => i = j

(***************************************************************************)
(* loadJSON and main: a session. `call` holds what the session meets (the  *)
(* answer of the feed server to each fetch, whether the cache directory    *)
(* can be written), `ret` the state of the session: the cache files, the   *)
(* value loadJSON gave for each feed, the feeds main keeps, the rows of    *)
(* the last query. `pc` is the position of main.                           *)
(***************************************************************************)

\* Milliseconds.
CACHE_DURATION == 5 * 60 * 1000

\* A cache file: whether it exists, its age (now - mtimeMs), whether its
\* text is JSON, and the value it then holds.
NoFile == [exists |-> FALSE, age |-> 0, parses |-> FALSE, data |-> Null]

CachedFile(age, parses, data) ==
    [exists |-> TRUE, age |-> age, parses |-> parses, data |-> data]

\* Lines 349-357: the fallback to the cache file, whatever its age; null
\* when it cannot be read or parsed.
ReadCacheOrNull(file) == IF file.exists /\ file.parses THEN file.data ELSE Null

\* Lines 328-358: the value returned, the cache file afterwards and whether
\* fetch was called.
\* `response` is what the fetch meets: "ok" with data, a response that is
\* not ok, or a rejected fetch; writeFile fails when the cache directory
\* cannot be written.
LoadJSON(file, response, writable) ==
    IF file.exists /\ file.age < CACHE_DURATION /\ file.parses
    THEN [value |-> file.data, file |-> file, fetched |-> FALSE]
    ELSE IF response.outcome = "ok" /\ writable
    THEN [value |-> response.data, file |-> CachedFile(0, TRUE, response.data),
          fetched |-> TRUE]
    ELSE [value |-> ReadCacheOrNull(file), file |-> file, fetched |-> TRUE]

\* (await loadJSON(...)).entity, lines 709-711: reading a property of null
\* throws.
EntityOf(loaded) ==
    IF loaded = Null THEN Throw("TypeError")
    ELSE IF Has(loaded, "entity") THEN Return(loaded.entity)
    ELSE Return(Undefined)

Feeds == {"trip_updates", "vehicle_positions", "alerts"}

\* What the feed server sends: the trip of the timetable predicted at stop 1
\* and its vehicle, or a document without an entity list.
ServedTripUpdates ==
    [entity |-> Array(<<[id |-> "TU",
                         tripUpdate |->
                             [trip |-> [tripId |-> "trip1", routeId |-> Route66],
                              stopTimeUpdate |->
                                  <<[stopId |-> "1", arrival |-> [time |-> Feed1000]]>>]]>>)]

ServedVehiclePositions ==
    [entity |-> Array(<<[id |-> "VP",
                         vehicle |-> [trip |-> [tripId |-> "trip1", routeId |-> Route66],
                                      position |-> VehiclePosition]]>>)]

ServedAlerts == [entity |-> Array(<<>>)]

NoEntityDocument == [header |-> "gtfs"]

\* What an earlier session left in the cache files.
CachedTripUpdates ==
    [entity |-> Array(<<[id |-> "TU",
                         tripUpdate |->
                             [trip |-> [tripId |-> "trip1", routeId |-> Route66],
                              stopTimeUpdate |->
                                  <<[stopId |-> "1", departure |-> [time |-> Feed1002]]>>]]>>)]

CachedVehiclePositions == [entity |-> Array(<<>>)]

\* The answers a fetch can meet, given the document the server would send.
Responses(served) ==
    {[outcome |-> "ok", data |-> served], [outcome |-> "ok", data |-> NoEntityDocument],
     [outcome |-> "notOk", data |-> Null], [outcome |-> "rejects", data |-> Null]}

\* The cache files a session can find: none, or one just younger or just as
\* old as CACHE_DURATION, with JSON or with broken text.
CacheFiles(cached) ==
    {NoFile} \cup {CachedFile(age, parses, cached) :
                      age \in {CACHE_DURATION - 1, CACHE_DURATION}, parses \in BOOLEAN}

\* The number of queries of a session.
MaxQueries == 2

\* The timetable of the session: trip1 of route 66 leaves stop 1 at 10:00:00
\* and reaches stop 2 at 10:20:00, every day.
SessionStopTimes ==
    <<StopTimeRow("trip1", "1", ClockHMS(10, 0, 0), ClockHMS(10, 0, 0)),
      StopTimeRow("trip1", "2", ClockHMS(10, 20, 0), ClockHMS(10, 20, 0))>>

SessionTrips == <<TripRow("trip1", Route66, "service1")>>

InitSession ==
    /\ pc = "loadTripUpdates"
    /\ \E tu \in Responses(ServedTripUpdates), vp \in Responses(ServedVehiclePositions),
          al \in {[outcome |-> "ok", data |-> ServedAlerts],
                  [outcome |-> "rejects", data |-> Null]},
          writable \in BOOLEAN :
          call = [op |-> "main",
                  responses |-> [trip_updates |-> tu, vehicle_positions |-> vp,
                                 alerts |-> al],
                  writable |-> writable]
    /\ \E ftu \in CacheFiles(CachedTripUpdates), fvp \in CacheFiles(CachedVehiclePositions) :
          ret = [files |-> [trip_updates |-> ftu, vehicle_positions |-> fvp,
                            alerts |-> NoFile],
                 loaded |-> [f \in Feeds |-> Pending],
                 entity |-> [f \in Feeds |-> Pending],
                 queries |-> 0,
                 result |-> <<>>]

\* One of lines 709-711: loadJSON for the feed, then .entity of its value.
\* A TypeError rejects the promise of main, which ends the session
\* (line 804).
AwaitFeed(feed, at, next) ==
    /\ pc = at
    /\ call.op = "main"
    /\ LET r == LoadJSON(ret.files[feed], call.responses[feed], call.writable)
           e == EntityOf(r.value)
       IN  /\ ret' = [ret EXCEPT !.files[feed] = r.file,
                                 !.loaded[feed] = r.value,
                                 !.entity[feed] =
                                     IF e.kind = "return" THEN e.value ELSE Pending]
           /\ pc' = IF e.kind = "throw" THEN "rejected" ELSE next
    /\ UNCHANGED call

LoadTripUpdates == AwaitFeed("trip_updates", "loadTripUpdates", "loadVehiclePositions")

LoadVehiclePositions == AwaitFeed("vehicle_positions", "loadVehiclePositions", "loadAlerts")

LoadAlerts == AwaitFeed("alerts", "loadAlerts", "prompt")

\* x || "N/A"
OrNA(x) == IF x = <<>> THEN NA ELSE x

\* Lines 752-781, the row of one upcoming departure (its live and travel
\* time columns).
ResultRow(entry, tripUpdates, vehiclePositions) ==
    LET liveData == MatchLiveData(tripUpdates, vehiclePositions, entry.startStopTime,
                                  entry.routeId, entry.startStopTime.trip_id)
        startTime == OrNA(entry.startStopTime.arrival_time)
    IN  IF liveData.kind = "throw" THEN liveData
        ELSE Return([liveArrivalTime |-> OrNA(liveData.value.liveArrivalTime),
                     livePosition |-> OrNA(liveData.value.livePosition),
                     estimatedTravelTime |->
                         IF entry.endStopTime = Undefined THEN NA
                         ELSE CalculateTravelTime(startTime,
                                                  OrNA(entry.endStopTime.arrival_time))])

\* Lines 713-787, one query: the user asks for route 66 from stop 1 to stop
\* 2 on 2024-08-29 at the time entered; the rows of the table printed.
RunQuery ==
    /\ pc = "prompt"
    /\ call.op = "main"
    /\ \E time \in DeparturesQueryTimes :
          LET upcomingStopTimes ==
                  FilterTripsForUpcomingDepartures(
                      SessionStopTimes, SessionTrips, RoutesTable, "66",
                      [stop_id |-> "1"], [stop_id |-> "2"],
                      NewDateBrisbane(ISODate(8, 29), time),
                      DeparturesCalendar, <<>>)
              departures == IF upcomingStopTimes.kind = "throw" THEN <<>>
                            ELSE upcomingStopTimes.value
              rows == [k \in 1..Len(departures) |->
                          ResultRow(departures[k],
                                    ret.entity.trip_updates,
                                    ret.entity.vehicle_positions)]
          IN  IF \/ upcomingStopTimes.kind = "throw"
                 \/ \E k \in 1..Len(rows) : rows[k].kind = "throw"
              THEN /\ pc' = "rejected"
                   /\ ret' = [ret EXCEPT !.queries = @ + 1, !.result = <<>>]
              ELSE /\ pc' = "replay"
                   /\ ret' = [ret EXCEPT !.queries = @ + 1,
                                         !.result = [k \in 1..Len(rows) |-> rows[k].value]]
    /\ UNCHANGED call

\* Lines 789-798: search again, or leave.
Replay ==
    /\ pc = "replay"
    /\ call.op = "main"
    /\ \E again \in BOOLEAN :
          IF again THEN ret.queries < MaxQueries /\ pc' = "prompt"
          ELSE pc' = "exited"
    /\ UNCHANGED <<call, ret>>

SpecSession ==
    InitSession
        /\ [][LoadTripUpdates \/ LoadVehiclePositions \/ LoadAlerts \/ RunQuery \/ Replay]_vars

\* loadJSON gave null for the trip updates or for the vehicle positions.
FeedUnavailable ==
    ret.loaded.trip_updates = Null \/ ret.loaded.vehicle_positions = Null

\* C20: when loadJSON yields null for a real-time feed, the session does not
\* end with an error: it goes on to the queries, and every row of a result
\* has the sentinel as live arrival time and as live position.
C20_SessionSurvivesMissingFeed ==
    (call.op = "main" /\ FeedUnavailable) =>
        /\ pc # "rejected"
        /\ \A k \in 1..Len(ret.result) :
              /\ ret.result[k].liveArrivalTime = NA
              /\ ret.result[k].livePosition = NA

\* The number of calls of loadJSON on one cache file.
MaxLoads == 2

\* The time between two calls: just less than CACHE_DURATION, or all of it.
Elapsed == {CACHE_DURATION - 1, CACHE_DURATION}

InitCache ==
    /\ pc = "ready"
    /\ \E file \in CacheFiles(CachedTripUpdates),
          response \in Responses(ServedTripUpdates),
          writable \in BOOLEAN :
          call = [op |-> "loadJSON", file |-> file, response |-> response,
                  writable |-> writable, loads |-> 1]
    /\ ret = Pending

\* Lines 328-358, one call: every path of the function returns, none throws.
DoLoadJSON ==
    /\ pc = "ready"
    /\ call.op = "loadJSON"
    /\ LET r == LoadJSON(call.file, call.response, call.writable)
       IN  ret' = [kind |-> "return", value |-> r.value, file |-> r.file,
                   fetched |-> r.fetched]
    /\ pc' = "done"
    /\ UNCHANGED call

\* A later call on the same cache file, which has aged meanwhile.
LoadAgain ==
    /\ pc = "done"
    /\ call.op = "loadJSON"
    /\ call.loads < MaxLoads
    /\ \E elapsed \in Elapsed, response \in Responses(ServedTripUpdates),
          writable \in BOOLEAN :
          call' = [op |-> "loadJSON",
                   file |-> IF ret.file.exists
                            THEN [ret.file EXCEPT !.age = @ + elapsed]
                            ELSE ret.file,
                   response |-> response,
                   writable |-> writable,
                   loads |-> call.loads + 1]
    /\ ret' = Pending
    /\ pc' = "ready"

SpecCache == InitCache /\ [][DoLoadJSON \/ LoadAgain]_vars

\* The cache file of the call is younger than CACHE_DURATION and holds JSON.
FreshCache == call.file.exists /\ call.file.age < CACHE_DURATION /\ call.file.parses

\* C24: a cache file younger than 5 minutes is returned without a fetch;
\* otherwise loadJSON fetches, and when the fetch succeeds it returns the
\* fetched data and the cache file holds them afterwards; when the fetch
\* fails it returns the content of the cache file whatever its age; and when
\* there is neither fetched data nor a readable cache file it throws.
C24_CacheProtocol ==
    Returned("loadJSON") =>
        /\ FreshCache => ret.kind = "return" /\ ret.value = call.file.data /\ ~ret.fetched
        /\ (~FreshCache /\ call.response.outcome = "ok") =>
              /\ ret.kind = "return"
              /\ ret.fetched
              /\ ret.value = call.response.data
              /\ ret.file.exists /\ ret.file.parses
              /\ ret.file.data = call.response.data
        /\ (~FreshCache /\ call.response.outcome # "ok"
                /\ call.file.exists /\ call.file.parses) =>
              ret.kind = "return" /\ ret.value = call.file.data
        /\ (call.response.outcome # "ok"
                /\ ~(call.file.exists /\ call.file.parses)) =>
              ret.kind = "throw"

(***************************************************************************)
(* The operations together: any one of them, on any of its arguments.      *)
(***************************************************************************)

Init ==
    \/ InitRoute \/ InitTravel \/ InitCalendar \/ InitDepartures \/ InitLive
    \/ InitDataframe \/ InitStops \/ InitSession
    \/ InitPairing \/ InitCache

Next ==
    \/ DoMatchRouteIds
    \/ DoCalculateTravelTime
    \/ DoIsServiceRunning
    \/ DoFilterTripsForUpcomingDepartures
    \/ DoMatchLiveData
    \/ DoJoin
    \/ DoDistinct
    \/ DoSort
    \/ DoGetRouteStops
    \/ LoadTripUpdates
    \/ LoadVehiclePositions
    \/ LoadAlerts
    \/ RunQuery
    \/ Replay
    \/ DoLoadJSON
    \/ LoadAgain

Spec == Init /\ [][Next]_vars

====
